---- MODULE Spec2Model ----
(***************************************************************************)
(* Model of the type generator of typed-adventureland                      *)
(* (src/generator/Generator.ts): the descriptor directory, the Generator   *)
(* object (configMap, configDir), and one run of generate() as the steps   *)
(* getGData, generateDefaultConfigs, one loop iteration per loaded         *)
(* descriptor, and the write of the global index.                          *)
(*                                                                         *)
(* Names (category names, group names, file base names, identifiers) are   *)
(* sequences of one-character strings, so capitalize and the template      *)
(* strings of the source are computed on them.  A path is the sequence of  *)
(* its components joined with "/".                                         *)
(***************************************************************************)
EXTENDS Integers, Sequences, FiniteSets, TLC

VARIABLES
    data,          \* RawData returned by getGData (fixed for the whole behaviour)
    orphanThrows,  \* does analysing data[GKey] = undefined throw (TRUE) or yield nothing (FALSE)
    dir,           \* descriptor directory: base name of a .json file -> parsed GeneratorConfig
    out,           \* what this run has created or written in the output and debug trees: path -> content
    configMap,     \* Generator.configMap, in insertion order: Seq of [file, config]
    configDir,     \* Generator.configDir: "undefined" or "configs"
    pc,            \* position of the run
    idx,           \* position of the for loop of generate() in configMap
    gTypesIndex,   \* local gTypesIndex of generate(): import statements
    gDataType,     \* local gDataType of generate(): fields of GData
    log,           \* paths written by this run, in order
    hist,          \* one record per finished generateDefaultConfigs call
    error,         \* the exception thrown in this run: "none", "io" (the disk, the data
                   \* source) or "throw" (grouping, analysis, formatting)
    run            \* number of the current run (one Generator object per run)

vars == <<data, orphanThrows, dir, out, configMap, configDir, pc, idx,
          gTypesIndex, gDataType, log, hist, error, run>>

----------------------------------------------------------------------------
(* Bounds *)

\* Number of records of the variable category.
NumIds == 2

\* Number of runs of the program over the same descriptor directory.
MaxRuns == 2

----------------------------------------------------------------------------
(* Names *)

Upper(c) == CASE c = "a" -> "A" [] c = "b" -> "B" [] OTHER -> c

\* helpers/capitalize: first character to upper case.
capitalize(s) == IF s = <<>> THEN s ELSE <<Upper(Head(s))>> \o Tail(s)

CatA == <<"a">>
CatB == <<"b">>
Version == <<"version">>

Categories == {CatA, CatB}
BaseNames == {CatA, CatB}

\* values of the grouping field
GroupVals == {<<"a">>, <<"b">>}
\* the grouping field is absent from the record
NoField == <<>>

join(p, q) == p \o <<"/">> \o q

Null == "null"
Undefined == "undefined"

----------------------------------------------------------------------------
(* RawData and GeneratorConfig *)

\* A record of a category: its identifying key and the grouping field "type".
Record(i, t) == [id |-> i, type |-> t]

RECURSIVE RecordLists(_)
\* The record sequences of n records: the first record is of group "a", a
\* later one of either group or without the grouping field.
RecordLists(n) ==
    IF n = 1 THEN {<<Record(1, <<"a">>)>>}
    ELSE {Append(s, Record(n, t)) : s \in RecordLists(n - 1), t \in GroupVals \cup {NoField}}

\* The datasets getGData can return: "version" is always present, each
\* category is present or not.
RawData ==
    {[k \in {Version} \cup cs |->
        IF k = Version THEN <<>>
        ELSE IF k = CatA THEN ra ELSE <<Record(1, <<"a">>)>>] :
     cs \in SUBSET Categories, ra \in RecordLists(NumIds)}

\* nameOverride: Record<string, string>, as its set of entries <<key, value>>
NoOverride == {}
NameOverrides == {NoOverride, {<<(<<"b">>), (<<"A">>)>>}, {<<(<<"b">>), (<<"b">>)>>}}

\* interface GeneratorConfig.  overrides, extractedTypes and description are
\* read by the analysis only and are left out.
GeneratorConfig ==
    [disabled : BOOLEAN, GKey : Categories, groupKey : {Null, "type"},
     nameOverride : NameOverrides]

\* The descriptor files a directory can hold under the base name b.
ConfigsAt(b) ==
    IF b = CatA
    THEN {c \in GeneratorConfig : c.groupKey = Null => c.nameOverride = NoOverride}
    ELSE {c \in GeneratorConfig : c.groupKey = Null /\ c.nameOverride = NoOverride}

Directories ==
    UNION {{d \in [bs -> GeneratorConfig] : \A b \in bs : d[b] \in ConfigsAt(b)} :
           bs \in SUBSET BaseNames}

\* readdirSync lists the directory in name order.
RECURSIVE SortedNames(_)
Before(x, y) == x = CatA /\ y = CatB
SortedNames(S) ==
    IF S = {} THEN <<>>
    ELSE LET m == CHOOSE x \in S : \A y \in S \ {x} : Before(x, y)
         IN <<m>> \o SortedNames(S \ {m})

Range(s) == {s[i] : i \in DOMAIN s}

\* writeFileSync, ensureDirectory: the tree f with path p set to content c
WriteFile(f, p, c) == [q \in DOMAIN f \cup {p} |-> IF q = p THEN c ELSE f[q]]

----------------------------------------------------------------------------
(* Grouper, Analyzer and Emitter, as far as generate() reads their results *)

RECURSIVE Dedup(_)
\* distinct elements of s, first-seen order
Dedup(s) ==
    IF s = <<>> THEN <<>>
    ELSE LET n == Len(s)
             r == Dedup(SubSeq(s, 1, n - 1))
         IN IF s[n] \in Range(r) THEN r ELSE Append(r, s[n])

\* data[GKey]; undefined is read as no records where the analysis does not throw
RecordsOf(GKey) == IF GKey \in DOMAIN data THEN data[GKey] ELSE <<>>

\* helpers/groupBy: one group per distinct value of the field, in first-seen
\* order, each with its records in their original order.
groupBy(records, groupKey) ==
    LET vals == Dedup([i \in DOMAIN records |-> records[i][groupKey]])
    IN [i \in DOMAIN vals |->
          [name |-> vals[i],
           records |-> SelectSeq(records, LAMBDA r : r[groupKey] = vals[i])]]

\* a record without the grouping field makes groupBy fail
groupByThrows(records, groupKey) ==
    \E i \in DOMAIN records : records[i][groupKey] = NoField

\* line 106: the groups of a category
Grouped(config) ==
    IF config.groupKey # Null
    THEN groupBy(RecordsOf(config.GKey), config.groupKey)
    ELSE <<[name |-> config.GKey, records |-> RecordsOf(config.GKey)]>>

\* the declaration name of a group: the name nameOverride gives it, taken as
\* written, or else the group name capitalized ("qubics" yields QubicsKey and
\* GQubics)
CategoryName(config, name) ==
    IF \E e \in config.nameOverride : e[1] = name
    THEN (CHOOSE e \in config.nameOverride : e[1] = name)[2]
    ELSE capitalize(name)

\* analysis.analyseAll: one AnalysisResult per group; category is the
\* declaration name of the group, keys the key union of the group.
analyseAll(grouped, config) ==
    [i \in DOMAIN grouped |->
        [category |-> CategoryName(config, grouped[i].name),
         keys |-> Dedup([j \in DOMAIN grouped[i].records |-> grouped[i].records[j].id]),
         group |-> grouped[i].name]]

\* lines 106-107 throw: the category is absent from the data and the analysis
\* of undefined throws, or a record lacks the grouping field
AnalysisThrows(config) ==
    \/ config.GKey \notin DOMAIN data /\ orphanThrows
    \/ config.groupKey # Null /\ groupByThrows(RecordsOf(config.GKey), config.groupKey)

KeyName(name) == name \o <<"Key">>
GName(name) == <<"G">> \o name

\* generateTs.generateTypes: the module of one group declares <category>Key
\* (the key union of the group) and G<category> (the shape of the group).
generateTypes(val, groupKey, config) ==
    [kind |-> "module", keyUnion |-> KeyName(val.category), keys |-> val.keys,
     shape |-> GName(val.category), group |-> val.group]

----------------------------------------------------------------------------
(* One iteration of the loop of generate() *)

TargetDir == <<"out">>
TmpDir == <<"tmp">>
GTypesDir == join(TargetDir, <<"GTypes">>)
OutDir(GKey) == join(GTypesDir, GKey)
GTypesIndexPath == join(GTypesDir, <<"index.ts">>)

\* the check of line 102 left out: no descriptor is skipped
SkippedNever(config) == FALSE

\* line 102: if (disabled) continue
Skipped(config) == config.disabled

\* lines 127-152: index.ts of a category.  Exports of every group module; when
\* grouped, the imports of the group modules and the category-level key union.
CategoryIndex(config, analysis) ==
    [kind |-> "index",
     exports |-> [i \in DOMAIN analysis |-> analysis[i].category],
     imports |->
        IF config.groupKey # Null
        THEN [i \in DOMAIN analysis |->
                [names |-> <<KeyName(analysis[i].category), GName(analysis[i].category)>>,
                 from |-> analysis[i].category]]
        ELSE <<>>,
     keyUnion |->
        IF config.groupKey # Null
        THEN <<[name |-> KeyName(capitalize(config.GKey)),
                members |-> [i \in DOMAIN analysis |-> KeyName(analysis[i].category)]]>>
        ELSE <<>>]

\* lines 141-147 and 160-164: the import statement pushed to gTypesIndex
ImportOf(file, config, analysis) ==
    [by |-> file,
     names |->
        IF config.groupKey # Null
        THEN <<KeyName(capitalize(config.GKey))>>
             \o [i \in DOMAIN analysis |-> GName(analysis[i].category)]
        ELSE <<KeyName(capitalize(config.GKey)), GName(capitalize(config.GKey))>>,
     from |-> config.GKey]

\* lines 154-158 and 166: the field pushed to gDataType,
\*   <GKey>: {[T in <keyType>]: | shapes[1] | shapes[2] ...}
GDataField(file, config, analysis) ==
    [by |-> file,
     field |-> config.GKey,
     keyType |-> KeyName(capitalize(config.GKey)),
     shapes |->
        IF config.groupKey # Null
        THEN [i \in DOMAIN analysis |-> GName(capitalize(analysis[i].category))]
        ELSE <<GName(capitalize(config.GKey))>>]

\* prettier.format of line 171 rejects "export type XKey = ;", the key union
\* of a grouped category without groups
FormatThrows(index) ==
    index.keyUnion # <<>> /\ index.keyUnion[1].members = <<>>

Effect(file, path, body) == [path |-> path, by |-> file, body |-> body]

\* lines 109-124 and 169-172: the directories and files one iteration creates
\* or writes, in the order of the calls
Effects(file, config) ==
    LET GKey == config.GKey
        grouped == Grouped(config)
        analysis == analyseAll(grouped, config)
        n == Len(analysis)
        perVal(i) ==
            <<Effect(file, join(join(TmpDir, GKey), analysis[i].category \o <<"_analysis.json">>),
                     [kind |-> "analysis", val |-> analysis[i]]),
              Effect(file, join(OutDir(GKey), analysis[i].category \o <<".ts">>),
                     generateTypes(analysis[i], config.groupKey, config))>>
    IN <<Effect(file, OutDir(GKey), [kind |-> "dir"]),
         Effect(file, join(TmpDir, GKey), [kind |-> "dir"]),
         Effect(file, join(join(TmpDir, GKey), <<"grouped.json">>),
                [kind |-> "grouped", grouped |-> grouped])>>
       \o [k \in 1..(2 * n) |-> perVal((k + 1) \div 2)[2 - (k % 2)]]
       \o <<Effect(file, join(OutDir(GKey), <<"index.ts">>),
                   CategoryIndex(config, analysis))>>

\* One iteration for an enabled descriptor: the effects it reaches, whether it
\* throws by itself after them, and what it pushes to the two local arrays.
Iteration(file, config) ==
    IF AnalysisThrows(config)
    THEN [effects |-> <<>>, throws |-> TRUE]
    ELSE LET analysis == analyseAll(Grouped(config), config)
             all == Effects(file, config)
         IN IF FormatThrows(CategoryIndex(config, analysis))
            THEN [effects |-> SubSeq(all, 1, Len(all) - 1), throws |-> TRUE]
            ELSE [effects |-> all, throws |-> FALSE,
                  import |-> ImportOf(file, config, analysis),
                  field |-> GDataField(file, config, analysis)]

RECURSIVE Apply(_, _)
\* the file system after the effects es, in order
Apply(f, es) ==
    IF es = <<>> THEN f
    ELSE Apply(WriteFile(f, Head(es).path, [by |-> Head(es).by, body |-> Head(es).body]),
               Tail(es))

Paths(es) == [i \in DOMAIN es |-> es[i].path]

----------------------------------------------------------------------------
(* The program *)

\* line 42: ensureDirectory(targetDir)
Constructed == [p \in {TargetDir} |-> [by |-> <<"*">>, body |-> [kind |-> "dir"]]]

\* lines 41-44: a new Generator
Init ==
    /\ data \in RawData
    /\ orphanThrows \in BOOLEAN
    /\ dir \in Directories
    /\ out = Constructed
    /\ configMap = <<>>
    /\ configDir = Undefined
    /\ pc = "constructed"
    /\ idx = 0
    /\ gTypesIndex = <<>>
    /\ gDataType = <<>>
    /\ log = <<>>
    /\ hist = <<>>
    /\ error = "none"
    /\ run = 1

\* lines 46-57: loadConfig.  One Map entry per .json file, keyed by base name.
LoadConfig ==
    /\ pc = "constructed"
    /\ configDir = Undefined
    /\ configDir' = "configs"
    /\ configMap' = LET names == SortedNames(DOMAIN dir)
                    IN [i \in DOMAIN names |-> [file |-> names[i], config |-> dir[names[i]]]]
    /\ UNCHANGED <<data, orphanThrows, dir, out, pc, idx, gTypesIndex, gDataType,
                   log, hist, error, run>>

\* line 90: await getGData() resolves
GetGData ==
    /\ pc = "constructed"
    /\ pc' = "fetched"
    /\ UNCHANGED <<data, orphanThrows, dir, out, configMap, configDir, idx,
                   gTypesIndex, gDataType, log, hist, error, run>>

\* line 90: await getGData() rejects
GetGDataThrows ==
    /\ pc = "constructed"
    /\ pc' = "failed"
    /\ error' = "io"
    /\ UNCHANGED <<data, orphanThrows, dir, out, configMap, configDir, idx,
                   gTypesIndex, gDataType, log, hist, run>>

\* lines 60-68: the keys of data no loaded config declares as its GKey
Declared(GKey) == \E i \in DOMAIN configMap : configMap[i].config.GKey = GKey
MissingConfigs == {GKey \in DOMAIN data : GKey # Version /\ ~Declared(GKey)}

\* lines 71-79
DefaultConfig(GKey) ==
    [disabled |-> TRUE, GKey |-> GKey, groupKey |-> Null, nameOverride |-> NoOverride]

\* lines 81-84: writeFileSync(<configDir>/<GKey>.json, default) for each GKey of W
WriteDefaults(d, W) ==
    [b \in DOMAIN d \cup W |-> IF b \in W THEN DefaultConfig(b) ELSE d[b]]

\* lines 59-87 (called at line 94): generateDefaultConfigs
GenerateDefaultConfigs ==
    /\ pc = "fetched"
    /\ LET W == IF configDir # Undefined THEN MissingConfigs ELSE {}
       IN /\ dir' = WriteDefaults(dir, W)
          /\ hist' = Append(hist, [loaded |-> configDir # Undefined, written |-> W])
    /\ pc' = "generating"
    /\ idx' = 1
    /\ gTypesIndex' = <<>>
    /\ gDataType' = <<>>
    /\ UNCHANGED <<data, orphanThrows, out, configMap, configDir, log, error, run>>

\* lines 81-84: a writeFileSync of generateDefaultConfigs throws after the
\* defaults of W have been written
GenerateDefaultConfigsThrows ==
    /\ pc = "fetched"
    /\ configDir # Undefined
    /\ \E W \in SUBSET MissingConfigs :
          /\ W # MissingConfigs
          /\ dir' = WriteDefaults(dir, W)
    /\ pc' = "failed"
    /\ error' = "io"
    /\ UNCHANGED <<data, orphanThrows, out, configMap, configDir, idx, gTypesIndex,
                   gDataType, log, hist, run>>

\* lines 99-173: one iteration of the loop that completes
ProcessConfig ==
    /\ pc = "generating"
    /\ idx \in DOMAIN configMap
    /\ LET file == configMap[idx].file
           config == configMap[idx].config
       IN IF Skipped(config)
          THEN UNCHANGED <<out, gTypesIndex, gDataType, log>>
          ELSE LET it == Iteration(file, config)
               IN /\ ~it.throws
                  /\ out' = Apply(out, it.effects)
                  /\ log' = log \o Paths(it.effects)
                  /\ gTypesIndex' = Append(gTypesIndex, it.import)
                  /\ gDataType' = Append(gDataType, it.field)
    /\ idx' = idx + 1
    /\ UNCHANGED <<data, orphanThrows, dir, configMap, configDir, pc, hist, error, run>>

\* the exception caught inside the loop: the run goes on with the next descriptor
ThrownAndCaught == "generating"

\* what an exception thrown inside generate() does to the run: nothing catches
\* it, the promise of generate() rejects
Thrown == "failed"

\* lines 99-173: one iteration that throws, after k of its effects: by itself
\* (grouping, analysis, formatting) after all it reaches, or at an earlier
\* directory creation or file write that fails
ProcessConfigThrows ==
    /\ pc = "generating"
    /\ idx \in DOMAIN configMap
    /\ ~Skipped(configMap[idx].config)
    /\ LET it == Iteration(configMap[idx].file, configMap[idx].config)
       IN \E k \in 0..Len(it.effects) :
             /\ k = Len(it.effects) => it.throws
             /\ out' = Apply(out, SubSeq(it.effects, 1, k))
             /\ log' = log \o Paths(SubSeq(it.effects, 1, k))
             /\ error' = IF k < Len(it.effects) THEN "io" ELSE "throw"
    /\ pc' = Thrown
    /\ idx' = IF Thrown = "failed" THEN idx ELSE idx + 1
    /\ UNCHANGED <<data, orphanThrows, dir, configMap, configDir, gTypesIndex,
                   gDataType, hist, run>>

\* lines 175-186: the global index
GTypesIndex == [kind |-> "gtypes", imports |-> gTypesIndex, gData |-> gDataType]

WriteGTypesIndex ==
    /\ pc = "generating"
    /\ idx = Len(configMap) + 1
    /\ out' = WriteFile(out, GTypesIndexPath, [by |-> <<"*">>, body |-> GTypesIndex])
    /\ log' = Append(log, GTypesIndexPath)
    /\ pc' = "done"
    /\ UNCHANGED <<data, orphanThrows, dir, configMap, configDir, idx, gTypesIndex,
                   gDataType, hist, error, run>>

\* lines 183-186: the write of the global index throws
WriteGTypesIndexThrows ==
    /\ pc = "generating"
    /\ idx = Len(configMap) + 1
    /\ pc' = "failed"
    /\ error' = "io"
    /\ UNCHANGED <<data, orphanThrows, dir, out, configMap, configDir, idx,
                   gTypesIndex, gDataType, log, hist, run>>

\* the program is started again over the same descriptor directory and data:
\* lines 41-44.  No run reads the output tree, and out starts over with the run.
Restart ==
    /\ pc \in {"done", "failed"}
    /\ run < MaxRuns
    /\ run' = run + 1
    /\ configMap' = <<>>
    /\ configDir' = Undefined
    /\ pc' = "constructed"
    /\ idx' = 0
    /\ gTypesIndex' = <<>>
    /\ gDataType' = <<>>
    /\ log' = <<>>
    /\ error' = "none"
    /\ out' = Constructed
    /\ UNCHANGED <<data, orphanThrows, dir, hist>>

Next ==
    \/ LoadConfig
    \/ GetGData
    \/ GetGDataThrows
    \/ GenerateDefaultConfigs
    \/ GenerateDefaultConfigsThrows
    \/ ProcessConfig
    \/ ProcessConfigThrows
    \/ WriteGTypesIndex
    \/ WriteGTypesIndexThrows
    \/ Restart

Spec == Init /\ [][Next]_vars

----------------------------------------------------------------------------
(* generate() as a function of the loaded descriptors, without I/O failures *)

RECURSIVE RunLoop(_, _)
\* lines 99-173 over the entries es, from the state st of the run
RunLoop(es, st) ==
    IF es = <<>> \/ ~st.ok THEN st
    ELSE LET e == Head(es)
         IN IF Skipped(e.config) THEN RunLoop(Tail(es), st)
            ELSE LET it == Iteration(e.file, e.config)
                 IN IF it.throws
                    THEN [st EXCEPT !.ok = FALSE, !.out = Apply(st.out, it.effects)]
                    ELSE RunLoop(Tail(es),
                                 [ok |-> TRUE,
                                  out |-> Apply(st.out, it.effects),
                                  gTypesIndex |-> Append(st.gTypesIndex, it.import),
                                  gDataType |-> Append(st.gDataType, it.field)])

\* lines 96-186 for the Map entries es
GenerateResult(es) ==
    LET st == RunLoop(es, [ok |-> TRUE, out |-> Constructed,
                           gTypesIndex |-> <<>>, gDataType |-> <<>>])
    IN IF st.ok
       THEN [st EXCEPT !.out =
                WriteFile(st.out, GTypesIndexPath,
                          [by |-> <<"*">>,
                           body |-> [kind |-> "gtypes", imports |-> st.gTypesIndex,
                                     gData |-> st.gDataType]])]
       ELSE st

----------------------------------------------------------------------------
(* Helpers of the properties *)

IsPrefix(p, q) == Len(p) <= Len(q) /\ SubSeq(q, 1, Len(p)) = p
Under(d, q) == q = d \/ IsPrefix(d \o <<"/">>, q)

Finished == pc \in {"done", "failed"}

\* the loaded descriptor of file f
ConfigOf(f) == (CHOOSE e \in Range(configMap) : e.file = f).config

\* the analysis results of a loaded descriptor
AnalysisOf(config) == analyseAll(Grouped(config), config)

EnabledEntries == {i \in DOMAIN configMap : ~configMap[i].config.disabled}

NoDuplicates(s) == \A i, j \in DOMAIN s : s[i] = s[j] => i = j

\* a descriptor whose GKey is no category of the data
Orphan(config) == config.GKey \notin DOMAIN data

\* the generated declaration tree: what lies under <targetDir>/GTypes
Declarations(f) == [p \in {q \in DOMAIN f : Under(GTypesDir, q)} |-> f[p]]

\* The value a GData field gives to one key.  The mapped type
\* {[T in K]: | S1 | S2} does not mention T: every key has every listed shape.
ShapesAt(field, key) == Range(field.shapes)

----------------------------------------------------------------------------
(* Properties *)

\* C1: generateDefaultConfigs never overwrites, mutates or deletes a
\* descriptor file that exists: every step leaves every existing file of the
\* descriptor directory as it was, also a file <category>.json whose GKey is
\* another category.
C1_NoDescriptorOverwritten ==
    [][\A b \in DOMAIN dir : b \in DOMAIN dir' /\ dir'[b] = dir[b]]_vars

\* C2: of two successive reconciliations (loadConfig, then
\* generateDefaultConfigs) over the same data and descriptor directory, the
\* second writes no file.
C2_SecondReconcileWritesNothing ==
    \A i \in DOMAIN hist :
        (i > 1 /\ hist[i - 1].loaded /\ hist[i].loaded) => hist[i].written = {}

\* two enabled descriptors give the same capitalized category name, or two
\* groups of an enabled descriptor the same (capitalized) declaration name
NameCollision ==
    \/ \E i, j \in EnabledEntries :
          /\ i # j
          /\ capitalize(configMap[i].config.GKey) = capitalize(configMap[j].config.GKey)
    \/ \E i \in EnabledEntries :
          LET an == AnalysisOf(configMap[i].config)
          IN \E p, q \in DOMAIN an :
                p # q /\ capitalize(an[p].category) = capitalize(an[q].category)

\* C3: when two groups or categories normalize to the same name the run does
\* not end successfully and produces no global index, and no file of the
\* output tree is written twice in one run.
C3_CollisionsRejected ==
    /\ NameCollision => (pc # "done" /\ GTypesIndexPath \notin DOMAIN out)
    /\ NoDuplicates(SelectSeq(log, LAMBDA p : Under(GTypesDir, p) /\ out[p].body.kind # "dir"))

\* C4: in GData, the field of a grouped category with two or more groups gives
\* each key the shape of the group the key belongs to, and no other shape.
C4_DiscriminatedMapping ==
    pc = "done" =>
        \A i \in DOMAIN gDataType :
            LET config == ConfigOf(gDataType[i].by)
                an == AnalysisOf(config)
            IN (config.groupKey # Null /\ Len(an) >= 2) =>
                  \A g \in DOMAIN an : \A k \in Range(an[g].keys) :
                      ShapesAt(gDataType[i], k) = {GName(capitalize(an[g].category))}

\* no loaded descriptor that declares GKey is enabled: the descriptors of the
\* category are disabled, or it has none (its default is scaffolded disabled)
DisabledCategory(GKey) ==
    \A i \in DOMAIN configMap : configMap[i].config.GKey = GKey => configMap[i].config.disabled

\* C5: a disabled category gets nothing: no output directory, module, index or
\* debug snapshot, no import and no field of the global index; and nothing is
\* written on behalf of a disabled descriptor.
C5_DisabledSkipped ==
    /\ \A GKey \in Categories \cup DOMAIN data :
          DisabledCategory(GKey) =>
              /\ \A p \in DOMAIN out \cup Range(log) :
                    ~Under(OutDir(GKey), p) /\ ~Under(join(TmpDir, GKey), p)
              /\ \A i \in DOMAIN gTypesIndex : gTypesIndex[i].from # GKey
              /\ \A i \in DOMAIN gDataType : gDataType[i].field # GKey
              /\ GTypesIndexPath \in DOMAIN out =>
                    LET g == out[GTypesIndexPath].body
                    IN /\ \A i \in DOMAIN g.imports : g.imports[i].from # GKey
                       /\ \A i \in DOMAIN g.gData : g.gData[i].field # GKey
    /\ \A p \in DOMAIN out : \A i \in DOMAIN configMap :
          configMap[i].config.disabled => out[p].by # configMap[i].file

\* C5 happens: a run ended with a disabled descriptor of a category of the
\* data, next to an enabled one whose category was generated
C5_Witness ==
    /\ pc = "done"
    /\ \E i \in DOMAIN configMap :
          /\ configMap[i].config.disabled
          /\ configMap[i].config.GKey \in DOMAIN data
          /\ DisabledCategory(configMap[i].config.GKey)
    /\ gDataType # <<>>

\* the keys of the key union a member of a category index names: the member
\* <category>Key is imported from the module ./<category> of the same directory
MemberKeys(GKey, index, i) ==
    LET m == join(OutDir(GKey), index.imports[i].from \o <<".ts">>)
    IN IF m \in DOMAIN out /\ out[m].body.keyUnion = index.keyUnion[1].members[i]
       THEN Range(out[m].body.keys)
       ELSE {}

\* C6: the category-level key union of a grouped category is the union of the
\* key unions of its groups: one member per group, none missing, none twice.
C6_KeyUnionTotal ==
    \A i \in DOMAIN configMap :
        LET config == configMap[i].config
            p == join(OutDir(config.GKey), <<"index.ts">>)
        IN (pc = "done" /\ ~config.disabled /\ config.groupKey # Null) =>
              LET index == out[p].body
                  members == index.keyUnion[1].members
                  groups == Grouped(config)
              IN \/ out[p].by # configMap[i].file
                 \/ /\ Len(members) = Len(groups)
                    /\ NoDuplicates(members)
                    /\ UNION {MemberKeys(config.GKey, index, m) : m \in DOMAIN members}
                         = UNION {{groups[g].records[r].id : r \in DOMAIN groups[g].records} :
                                  g \in DOMAIN groups}

\* C7: a descriptor whose GKey is no category of the data is inert: a run that
\* no I/O failure interrupts ends as, and generates the declaration tree of,
\* the run over the descriptors without it.
C7_OrphanInert ==
    (Finished /\ error # "io") =>
        LET r == GenerateResult(SelectSeq(configMap, LAMBDA e : ~Orphan(e.config)))
        IN /\ (pc = "done") = r.ok
           /\ Declarations(out) = Declarations(r.out)

\* C8: a failure in generate() aborts the run: once an exception is thrown the
\* run is failed, it has written no global index, and nothing more happens in
\* it (the next step is a new run).
C8_FailureAborts ==
    /\ [](error # "none" => (pc = "failed" /\ GTypesIndexPath \notin DOMAIN out))
    /\ [][error # "none" => run' = run + 1]_vars

\* C8 happens: an iteration threw after part of its writes, with an enabled
\* descriptor still to come
C8_Witness ==
    /\ pc = "failed"
    /\ idx \in DOMAIN configMap
    /\ Len(log) > 0
    /\ \E j \in DOMAIN configMap : j > idx /\ ~configMap[j].config.disabled

\* C9: after a successful run GData has exactly one field per enabled
\* category: each enabled descriptor's category is a field, no field name
\* occurs twice, and the field of an ungrouped category maps the key union of
\* the category to its one shape.
C9_OneFieldPerCategory ==
    pc = "done" =>
        LET g == out[GTypesIndexPath].body.gData
        IN /\ {g[i].field : i \in DOMAIN g}
                = {configMap[i].config.GKey : i \in EnabledEntries}
           /\ NoDuplicates([i \in DOMAIN g |-> g[i].field])
           /\ \A i \in DOMAIN g :
                 ConfigOf(g[i].by).groupKey = Null =>
                    \E p \in DOMAIN out :
                        /\ Under(OutDir(g[i].field), p)
                        /\ out[p].body.kind = "module"
                        /\ g[i].keyType = out[p].body.keyUnion
                        /\ g[i].shapes = <<out[p].body.shape>>

\* C10: every type identifier the GData type of the global index refers to is
\* imported by the import statement emitted for the same category.
C10_ReferencesImported ==
    GTypesIndexPath \in DOMAIN out =>
        LET g == out[GTypesIndexPath].body
        IN \A i \in DOMAIN g.gData :
              {g.gData[i].keyType} \cup Range(g.gData[i].shapes)
                 \subseteq Range(g.imports[i].names)

\* the run and the fold agree: a run that no I/O failure interrupts ends as
\* generate() computed over its Map
RunIsGenerateResult ==
    (Finished /\ error # "io") =>
        LET r == GenerateResult(configMap)
        IN (pc = "done") = r.ok /\ out = r.out

TypeOK ==
    /\ pc \in {"constructed", "fetched", "generating", "done", "failed"}
    /\ error \in {"none", "io", "throw"}
    /\ (pc = "failed") = (error # "none")
    /\ run \in 1..MaxRuns
    /\ idx \in 0..(Len(configMap) + 1)
    /\ Len(gTypesIndex) = Len(gDataType)
    /\ DOMAIN out = {TargetDir} \cup Range(log)

====
